---- MODULE Spec2Model ----
(***************************************************************************)
(* Schema-per-tenant routing core of Syntroph (apps/api/core).             *)
(*                                                                         *)
(* Strings are sequences of tokens.  The token "tenant_" stands for the    *)
(* seven characters of SchemaManager.SCHEMA_PREFIX; no other token holds   *)
(* these characters, so the occurrences of the prefix inside a name are    *)
(* exactly its "tenant_" tokens, and no token is a prefix of another, so   *)
(* equal strings are equal token sequences.  The one exception is the      *)
(* token INJECTED, SQL text that names a schema; it is only ever part of   *)
(* an argument of create_tenant_schema and drop_tenant_schema, never of a  *)
(* name that is read back.  Where the code counts or inspects characters   *)
(* (identifier truncation, the pattern of the signup form) the tokens are  *)
(* read character by character.  Host names are sequences of               *)
(* dot-separated labels, request paths are sequences of slash-separated    *)
(* segments.                                                               *)
(*                                                                         *)
(* A process is either the WSGI server with its worker threads, each with  *)
(* its own thread-local database connection, or a script (the test_*.py    *)
(* programs) with a single connection.  The specifications: SpecServer     *)
(* (the middleware chain), SpecServerEdge (the chain over a Tenant named   *)
(* public and a Tenant without a schema), SpecScript (search_path calls    *)
(* and contexts), SpecCatalog (catalog operations), SpecMembers            *)
(* (membership creation from two sessions), SpecIdentify (_identify_tenant *)
(* on its own), SpecProvision (provisioning and deregistration scripts),   *)
(* SpecRace (create_tenant_schema from two sessions), SpecSignup (the      *)
(* signup view of automated_tenant from two sessions), and Spec (server or *)
(* script).                                                                *)
(***************************************************************************)
EXTENDS Integers, Sequences, FiniteSets, TLC

VARIABLES
    tenants,        \* rows of table tenants (public schema)
    memberships,    \* rows of table tenant_memberships (public schema)
    schemata,       \* information_schema.schemata: names of existing schemas
    tabled,         \* schemas that contain the CRM tables (contacts, deals, ...)
    inserts,        \* per database session: the INSERT into tenant_memberships it has issued
    inflight,       \* per database session: the create_tenant_schema call or signup it is in
    search_path,    \* per connection: the session's search_path, a list of schema names
    pc,             \* per web worker: position in the middleware chain
    request,        \* per web worker: the request being served and its attributes
    response,       \* per web worker: status code of the response, once produced
    setCalls,       \* per web worker: arguments of the SET search_path statements issued for the request
    queries,        \* per web worker: schemas that the handler's queries resolved to
    spc,            \* script: position
    ctxStack,       \* script: the TenantSchemaContext objects entered and not yet left
    lastCall,       \* script: the latest SchemaManager / context / ORM call and what it did
    probe           \* a request handed to _identify_tenant on its own, and the tenant returned

vars == <<tenants, memberships, schemata, tabled, inserts, inflight, search_path, pc, request, response,
          setCalls, queries, spc, ctxStack, lastCall, probe>>

dbVars == <<tenants, memberships, schemata, tabled, inserts, inflight>>
webVars == <<pc, request, response, setCalls, queries>>
scriptVars == <<spc, ctxStack, lastCall>>

----------------------------------------------------------------------------
(* Names *)

SCHEMA_PREFIX == "tenant_"
PUBLIC_SCHEMA == <<"public">>

\* search_path of a connection that has just been opened: "$user", public
DefaultSearchPath == << <<"$user">>, PUBLIC_SCHEMA >>

Workers == {"w1", "w2"}
ScriptConn == "main"
Connections == Workers \cup {ScriptConn}

\* django.db.connection is a per-thread object: a thread only ever uses its own
ConnOfShared(thread) == "w1"
ConnOf(thread) == thread

\* set_search_path: public is used as it is, every other name gets the prefix
FullSchemaNameNoPublic(schema_name) == <<SCHEMA_PREFIX>> \o schema_name
FullSchemaName(schema_name) ==
    IF schema_name = PUBLIC_SCHEMA THEN PUBLIC_SCHEMA
    ELSE <<SCHEMA_PREFIX>> \o schema_name

\* SET search_path TO "<full_schema_name>", public
SearchPathFor(schema_name) == << FullSchemaName(schema_name), PUBLIC_SCHEMA >>

\* str.startswith(SCHEMA_PREFIX)
StartsWithPrefix(s) == Len(s) > 0 /\ s[1] = SCHEMA_PREFIX

\* str.replace(SCHEMA_PREFIX, ''): removes every occurrence
RemovePrefixTokens(s) == SelectSeq(s, LAMBDA tok : tok # SCHEMA_PREFIX)

\* get_current_schema on a search_path that was read successfully
CurrentSchemaOf(path) ==
    LET first_schema == Head(path)
    IN  IF StartsWithPrefix(first_schema) THEN RemovePrefixTokens(first_schema)
        ELSE PUBLIC_SCHEMA

\* get_current_schema: a failed read is logged and answered with public
GetCurrentSchema(conn, ok) ==
    IF ok THEN CurrentSchemaOf(search_path[conn]) ELSE PUBLIC_SCHEMA

\* the schema an unqualified reference to a CRM table resolves to: the first
\* schema of the search_path that exists and contains the table
RECURSIVE ResolveIn(_)
ResolveIn(path) ==
    IF path = <<>> THEN <<"no such relation">>
    ELSE IF Head(path) \in schemata /\ Head(path) \in tabled THEN Head(path)
    ELSE ResolveIn(Tail(path))

----------------------------------------------------------------------------
(* Rows *)

NoHeader == <<"-">>          \* the request does not carry the header
Anonymous == "anonymous"
NullDomain == <<>>           \* domain IS NULL
NoResponse == "none"

\* Python's null where a Tenant is expected, and a request without the attribute
NoTenant == [id |-> "null", schema_name |-> <<>>, domain |-> NullDomain, is_active |-> FALSE]
UnsetTenant == [id |-> "unset", schema_name |-> <<>>, domain |-> NullDomain, is_active |-> FALSE]
\* Python's null where a TenantMembership is expected
NoMembership == [user |-> "null", tenant |-> "null", is_active |-> FALSE, joined_at |-> 0]

TenantRows ==
    { [id |-> "uuid-1", schema_name |-> <<"acme">>,      domain |-> <<"acme", "example", "com">>, is_active |-> TRUE],
      [id |-> "uuid-2", schema_name |-> <<"techstart">>, domain |-> NullDomain,                   is_active |-> TRUE],
      [id |-> "uuid-3", schema_name |-> <<"oldco">>,     domain |-> <<"old", "example", "com">>,  is_active |-> FALSE],
      [id |-> "uuid-4", schema_name |-> <<"newco">>,     domain |-> NullDomain,                   is_active |-> TRUE] }

MembershipRows ==
    { [user |-> "u1", tenant |-> "uuid-1", is_active |-> TRUE,  joined_at |-> 1],
      [user |-> "u1", tenant |-> "uuid-4", is_active |-> TRUE,  joined_at |-> 2],
      [user |-> "u1", tenant |-> "uuid-2", is_active |-> FALSE, joined_at |-> 3],
      [user |-> "u2", tenant |-> "uuid-2", is_active |-> TRUE,  joined_at |-> 4],
      [user |-> "u2", tenant |-> "uuid-3", is_active |-> TRUE,  joined_at |-> 5] }

\* the catalog: create_tenant_schema has been called for acme, techstart and
\* newco; the CRM tables have been migrated into the first two by hand
SchemataRows ==
    { PUBLIC_SCHEMA, <<SCHEMA_PREFIX, "acme">>, <<SCHEMA_PREFIX, "techstart">>,
      <<SCHEMA_PREFIX, "newco">> }
TabledRows == { PUBLIC_SCHEMA, <<SCHEMA_PREFIX, "acme">>, <<SCHEMA_PREFIX, "techstart">> }

\* strings that uuid.UUID() accepts
WellFormedUUIDs == {"uuid-1", "uuid-2", "uuid-3", "uuid-4", "uuid-5", "uuid-9"}

----------------------------------------------------------------------------
(* Requests *)

\* TenantRoutingMiddleware.PUBLIC_PATHS; every entry ends with a slash
PUBLIC_PATHS ==
    { <<"admin">>, <<"api", "auth">>, <<"api", "tenants">>, <<"api", "users", "register">>,
      <<"api", "users", "login">>, <<"api", "docs">>, <<"api", "schema">>, <<"health">>,
      <<"static">>, <<"media">> }

\* path.startswith(public_path): the segments of public_path lead the path and
\* the last of them is followed by a slash
PathStartsWith(path, public_path) ==
    /\ Len(path.segs) >= Len(public_path)
    /\ SubSeq(path.segs, 1, Len(public_path)) = public_path
    /\ (Len(path.segs) > Len(public_path) \/ path.slash)

\* _is_public_path
IsPublicPath(path) == \E public_path \in PUBLIC_PATHS : PathStartsWith(path, public_path)

Paths ==
    { [segs |-> <<"api", "contacts">>, slash |-> TRUE],     \* /api/contacts/
      [segs |-> <<"health">>, slash |-> TRUE],              \* /health/
      [segs |-> <<"admin">>, slash |-> FALSE] }             \* /admin

TenantIdHeaders == { NoHeader, <<"uuid-3">>, <<"techstart">> }
TenantSchemaHeaders == { NoHeader, <<"newco">> }
Hosts == { <<"localhost">>, <<"acme", "example", "com">>, <<"oldco", "example", "com">> }
Users == { Anonymous, "u1", "u2" }

Requests ==
    [ path : Paths, xTenantId : TenantIdHeaders, xTenantSchema : TenantSchemaHeaders,
      host : Hosts, user : Users ]

IsAuthenticatedAlways(user) == TRUE
\* request.user.is_authenticated
IsAuthenticated(user) == user # Anonymous

\* Tenant.objects.get(...): the row, or NoTenant for DoesNotExist.  id, schema_name
\* and domain are unique columns, so at most one row matches.
GetTenantById(id) ==
    IF \E t \in tenants : t.id = id THEN CHOOSE t \in tenants : t.id = id ELSE NoTenant
GetTenantBySchemaName(name) ==
    IF \E t \in tenants : t.schema_name = name
    THEN CHOOSE t \in tenants : t.schema_name = name ELSE NoTenant
GetTenantByDomain(host) ==
    IF \E t \in tenants : t.domain = host
    THEN CHOOSE t \in tenants : t.domain = host ELSE NoTenant

\* uuid.UUID(value) raises ValueError unless the value is a well-formed UUID
IsUUID(value) == Len(value) = 1 /\ value[1] \in WellFormedUUIDs

FirstActiveMembershipOldest(user) ==
    LET mine == { m \in memberships : m.user = user /\ m.is_active }
    IN  IF mine = {} THEN NoMembership
        ELSE CHOOSE m \in mine : \A o \in mine : o.joined_at >= m.joined_at
\* TenantMembership.objects.filter(user=user, is_active=True).first() under
\* Meta.ordering = ['-joined_at']
FirstActiveMembership(user) ==
    LET mine == { m \in memberships : m.user = user /\ m.is_active }
    IN  IF mine = {} THEN NoMembership
        ELSE CHOOSE m \in mine : \A o \in mine : o.joined_at <= m.joined_at

ByTenantIdHeaderNameFirst(req) ==
    IF req.xTenantId = NoHeader THEN NoTenant
    ELSE LET byName == GetTenantBySchemaName(req.xTenantId)
         IN  IF byName # NoTenant THEN byName
             ELSE IF IsUUID(req.xTenantId) THEN GetTenantById(req.xTenantId[1]) ELSE NoTenant
\* Method 1: X-Tenant-ID header, as id first and as schema_name second
ByTenantIdHeader(req) ==
    IF req.xTenantId = NoHeader THEN NoTenant
    ELSE LET byId == IF IsUUID(req.xTenantId) THEN GetTenantById(req.xTenantId[1]) ELSE NoTenant
         IN  IF byId # NoTenant THEN byId ELSE GetTenantBySchemaName(req.xTenantId)

\* Method 2: X-Tenant-Schema header
ByTenantSchemaHeader(req) ==
    IF req.xTenantSchema = NoHeader THEN NoTenant ELSE GetTenantBySchemaName(req.xTenantSchema)

\* Method 3: the host is the tenant's domain
ByDomain(req) == GetTenantByDomain(req.host)

\* Method 4: host.split('.')[0] is a schema_name, for a host with a dot in it
BySubdomain(req) ==
    IF Len(req.host) > 1 THEN GetTenantBySchemaName(<<req.host[1]>>) ELSE NoTenant

\* Method 5: tenant of the authenticated user's first active membership, if active
ByUserDefault(req) ==
    IF ~IsAuthenticated(req.user) THEN NoTenant
    ELSE LET membership == FirstActiveMembership(req.user)
         IN  IF membership = NoMembership THEN NoTenant
             ELSE LET t == GetTenantById(membership.tenant)
                  IN  IF t # NoTenant /\ t.is_active THEN t ELSE NoTenant

IdentifyTenantSubdomainFirst(req) ==
    IF ByTenantIdHeader(req) # NoTenant THEN ByTenantIdHeader(req)
    ELSE IF ByTenantSchemaHeader(req) # NoTenant THEN ByTenantSchemaHeader(req)
    ELSE IF BySubdomain(req) # NoTenant THEN BySubdomain(req)
    ELSE IF ByDomain(req) # NoTenant THEN ByDomain(req)
    ELSE ByUserDefault(req)
\* _identify_tenant
IdentifyTenant(req) ==
    IF ByTenantIdHeader(req) # NoTenant THEN ByTenantIdHeader(req)
    ELSE IF ByTenantSchemaHeader(req) # NoTenant THEN ByTenantSchemaHeader(req)
    ELSE IF ByDomain(req) # NoTenant THEN ByDomain(req)
    ELSE IF BySubdomain(req) # NoTenant THEN BySubdomain(req)
    ELSE ByUserDefault(req)

GetMembershipAnyFlag(user, tenant_id) ==
    LET found == { m \in memberships : m.user = user /\ m.tenant = tenant_id }
    IN  IF found = {} THEN NoMembership ELSE CHOOSE m \in found : TRUE
\* TenantMembership.objects.get(user=user, tenant=tenant, is_active=True)
GetActiveMembership(user, tenant_id) ==
    LET found == { m \in memberships : m.user = user /\ m.tenant = tenant_id /\ m.is_active }
    IN  IF found = {} THEN NoMembership ELSE CHOOSE m \in found : TRUE

----------------------------------------------------------------------------
(* _identify_tenant on its own: one call per request, on tables that also   *)
(* hold a tenant whose schema_name is the id of another tenant and whose    *)
(* domain starts with the schema_name of a third.                           *)

ProbeTenantRows ==
    TenantRows \cup
    { [id |-> "uuid-5", schema_name |-> <<"uuid-1">>, domain |-> <<"newco", "example", "com">>,
       is_active |-> TRUE] }

ProbeRequests ==
    [ path : { [segs |-> <<"api", "contacts">>, slash |-> TRUE] },
      xTenantId : { NoHeader, <<"uuid-1">>, <<"uuid-3">>, <<"uuid-9">>, <<"techstart">>, <<"nobody">> },
      xTenantSchema : { NoHeader, <<"newco">>, <<"oldco">>, <<"nobody">> },
      host : { <<"localhost">>, <<"acme", "example", "com">>, <<"oldco", "example", "com">>,
               <<"newco", "example", "com">>, <<"www", "example", "com">> },
      user : { Anonymous, "u1", "u2", "u3" } ]

NoProbe ==
    [ ran |-> FALSE,
      req |-> [ path |-> [segs |-> <<"api", "contacts">>, slash |-> TRUE], xTenantId |-> NoHeader,
                xTenantSchema |-> NoHeader, host |-> <<"localhost">>, user |-> Anonymous ],
      tenant |-> NoTenant ]

\* tenant = self._identify_tenant(request)
IdentifyTenantCall(req) ==
    /\ spc = "probe"
    /\ probe' = [ ran |-> TRUE, req |-> req, tenant |-> IdentifyTenant(req) ]
    /\ UNCHANGED <<dbVars, search_path, webVars, spc, ctxStack, lastCall>>

----------------------------------------------------------------------------
(* The middleware chain of a web worker:                                    *)
(* ... AuthenticationMiddleware, TenantRoutingMiddleware,                   *)
(* TenantPermissionMiddleware, TenantDebugMiddleware, view.                 *)
(* MiddlewareMixin.__call__ runs process_request, then the rest of the      *)
(* chain unless process_request returned a response, then process_response; *)
(* an exception leaving a middleware or the view is turned into a 500       *)
(* response for the middleware above it.                                    *)

IdleRequest ==
    [ public_path |-> FALSE, user |-> Anonymous, tenant |-> UnsetTenant,
      tenant_membership |-> NoMembership, identified |-> FALSE, resolved |-> NoTenant,
      viewed |-> FALSE ]

\* what the chain keeps of a request: whether its path is a public path, the
\* user that AuthenticationMiddleware has attached, and the attributes the
\* tenant middleware attach
NewRequest(req) ==
    [IdleRequest EXCEPT !.public_path = IsPublicPath(req.path), !.user = req.user]

PathAfterSetNoEffect(conn, schema_name, ok) == search_path
\* one SchemaManager.set_search_path call: the SET statement either takes
\* effect, or fails and leaves the session's search_path as it was
PathAfterSet(conn, schema_name, ok) ==
    IF ok THEN [search_path EXCEPT ![conn] = SearchPathFor(schema_name)] ELSE search_path

SetCall(schema_name, ok, caller) == [name |-> schema_name, ok |-> ok, caller |-> caller]

\* process_request line 92: if not tenant.is_active
TenantIsActiveAlways(tenant) == TRUE
TenantIsActive(tenant) == tenant.is_active

\* process_request lines 101-103: request.tenant is assigned after
\* set_search_path returned, inside the same try block
TenantAttrAssignedFirst(tenant, ok) == tenant
TenantAttrAfterSwitch(tenant, ok) == IF ok THEN tenant ELSE UnsetTenant

\* TenantRoutingMiddleware.process_request
RoutingProcessRequest(w, req, ok) ==
    /\ pc[w] = "idle"
    /\ IF IsPublicPath(req.path)
       THEN /\ search_path' = PathAfterSet(ConnOf(w), PUBLIC_SCHEMA, ok)
            /\ setCalls' = [setCalls EXCEPT ![w] =
                  Append(@, SetCall(PUBLIC_SCHEMA, ok, "process_request"))]
            /\ IF ok
               THEN /\ request' = [request EXCEPT ![w] = [NewRequest(req) EXCEPT !.tenant = NoTenant]]
                    /\ pc' = [pc EXCEPT ![w] = "permission"]
                    /\ UNCHANGED response
               ELSE \* the exception leaves the middleware, process_response is skipped
                    /\ request' = [request EXCEPT ![w] = NewRequest(req)]
                    /\ response' = [response EXCEPT ![w] = "500"]
                    /\ pc' = [pc EXCEPT ![w] = "done"]
       ELSE LET tenant == IdentifyTenant(req)
                identifiedReq == [NewRequest(req) EXCEPT !.identified = TRUE, !.resolved = tenant]
            IN  IF tenant = NoTenant
                THEN /\ request' = [request EXCEPT ![w] = identifiedReq]
                     /\ response' = [response EXCEPT ![w] = "400"]
                     /\ pc' = [pc EXCEPT ![w] = "routing_response"]
                     /\ UNCHANGED <<search_path, setCalls>>
                ELSE IF ~TenantIsActive(tenant)
                THEN /\ request' = [request EXCEPT ![w] = identifiedReq]
                     /\ response' = [response EXCEPT ![w] = "403"]
                     /\ pc' = [pc EXCEPT ![w] = "routing_response"]
                     /\ UNCHANGED <<search_path, setCalls>>
                ELSE /\ search_path' = PathAfterSet(ConnOf(w), tenant.schema_name, ok)
                     /\ setCalls' = [setCalls EXCEPT ![w] =
                           Append(@, SetCall(tenant.schema_name, ok, "process_request"))]
                     /\ request' = [request EXCEPT ![w] =
                           [identifiedReq EXCEPT !.tenant = TenantAttrAfterSwitch(tenant, ok)]]
                     /\ IF ok
                        THEN /\ pc' = [pc EXCEPT ![w] = "permission"]
                             /\ UNCHANGED response
                        ELSE /\ response' = [response EXCEPT ![w] = "500"]
                             /\ pc' = [pc EXCEPT ![w] = "routing_response"]
    /\ UNCHANGED <<dbVars, queries, scriptVars, probe>>

\* TenantPermissionMiddleware.process_request
PermissionProcessRequest(w) ==
    /\ pc[w] = "permission"
    /\ IF request[w].tenant = UnsetTenant \/ request[w].tenant = NoTenant
       THEN /\ request' = [request EXCEPT ![w].viewed = TRUE]
            /\ pc' = [pc EXCEPT ![w] = "view"]
            /\ UNCHANGED response
       ELSE IF ~IsAuthenticated(request[w].user)
       THEN /\ response' = [response EXCEPT ![w] = "401"]
            /\ pc' = [pc EXCEPT ![w] = "routing_response"]
            /\ UNCHANGED request
       ELSE LET membership == GetActiveMembership(request[w].user, request[w].tenant.id)
            IN  IF membership = NoMembership
                THEN /\ response' = [response EXCEPT ![w] = "403"]
                     /\ pc' = [pc EXCEPT ![w] = "routing_response"]
                     /\ UNCHANGED request
                ELSE /\ request' = [request EXCEPT ![w].tenant_membership = membership,
                                                   ![w].viewed = TRUE]
                     /\ pc' = [pc EXCEPT ![w] = "view"]
                     /\ UNCHANGED response
    /\ UNCHANGED <<dbVars, search_path, setCalls, queries, scriptVars, probe>>

\* TenantAccessPermission.has_permission, the permission class of the CRM
\* viewsets: the user is authenticated, and the request has an attribute
\* tenant that is not None
TenantAccessPermission(r) ==
    IsAuthenticated(r.user) /\ r.tenant # UnsetTenant /\ r.tenant # NoTenant

\* the view queries a CRM table by its unqualified name (Contact.objects...)
ViewQuery(w) ==
    /\ pc[w] = "view"
    /\ queries' = [queries EXCEPT ![w] = @ \cup {ResolveIn(search_path[ConnOf(w)])}]
    /\ UNCHANGED <<dbVars, search_path, pc, request, response, setCalls, scriptVars, probe>>

\* the view returns a response, or raises and Django answers 500
ViewReturn(w, raised) ==
    /\ pc[w] = "view"
    /\ response' = [response EXCEPT ![w] = IF raised THEN "500" ELSE "200"]
    /\ pc' = [pc EXCEPT ![w] = "routing_response"]
    /\ UNCHANGED <<dbVars, search_path, request, setCalls, queries, scriptVars, probe>>

\* TenantRoutingMiddleware.process_response: a failed reset is logged only
RoutingProcessResponse(w, ok) ==
    /\ pc[w] = "routing_response"
    /\ search_path' = PathAfterSet(ConnOf(w), PUBLIC_SCHEMA, ok)
    /\ setCalls' = [setCalls EXCEPT ![w] =
          Append(@, SetCall(PUBLIC_SCHEMA, ok, "process_response"))]
    /\ pc' = [pc EXCEPT ![w] = "done"]
    /\ UNCHANGED <<dbVars, request, response, queries, scriptVars, probe>>

\* The response has left the chain.  conn_max_age = 600 keeps the worker's
\* connection open for its next request; Django closes it at this point only
\* when it has become unusable or is older than conn_max_age, and the worker
\* then opens a new one with the default search_path.
RequestFinished(w, closed) ==
    /\ pc[w] = "done"
    /\ pc' = [pc EXCEPT ![w] = "idle"]
    /\ request' = [request EXCEPT ![w] = IdleRequest]
    /\ response' = [response EXCEPT ![w] = NoResponse]
    /\ setCalls' = [setCalls EXCEPT ![w] = <<>>]
    /\ queries' = [queries EXCEPT ![w] = {}]
    /\ search_path' = IF closed THEN [search_path EXCEPT ![ConnOf(w)] = DefaultSearchPath]
                      ELSE search_path
    /\ UNCHANGED <<dbVars, scriptVars, probe>>

----------------------------------------------------------------------------
(* A script: direct SchemaManager calls, TenantSchemaContext blocks and      *)
(* functions wrapped by with_tenant_schema, on the script's one connection. *)

MaxDepth == 2       \* nesting depth of TenantSchemaContext blocks

ScriptNames == { PUBLIC_SCHEMA, <<"acme">>, <<"techstart">>, <<SCHEMA_PREFIX, "acme">> }

NoName == <<"-">>

NoCall ==
    [ op |-> "none", arg |-> NoName, ok |-> TRUE, result |-> NoName, before |-> NoName,
      block |-> "-", observed |-> "-", readOk |-> TRUE, depth |-> 0,
      returned |-> FALSE, listed |-> <<>>, raised |-> FALSE, ddl |-> FALSE, changed |-> FALSE,
      again |-> FALSE, cascade |-> FALSE, nonempty |-> FALSE ]

\* the namespace unqualified names resolve against first: the tenant schema
\* at the head of the search_path, or the global namespace
ActiveNamespace(path) ==
    IF StartsWithPrefix(Head(path)) THEN Head(path) ELSE PUBLIC_SCHEMA

\* SchemaManager.set_search_path(schema_name), called by the script itself
ScriptSetSearchPath(schema_name, ok) ==
    /\ spc = "run"
    /\ search_path' = PathAfterSet(ScriptConn, schema_name, ok)
    /\ lastCall' = [NoCall EXCEPT !.op = "set", !.arg = schema_name, !.ok = ok]
    /\ UNCHANGED <<dbVars, webVars, probe, spc, ctxStack>>

\* SchemaManager.get_current_schema(), called by the script itself; arg is the
\* name that the call right before it has set, when that call was a
\* set_search_path that succeeded
ScriptGetCurrentSchema(ok) ==
    /\ spc = "run"
    /\ lastCall' = [NoCall EXCEPT !.op = "get", !.ok = ok,
                                  !.result = GetCurrentSchema(ScriptConn, ok),
                                  !.arg = IF lastCall.op = "set" /\ lastCall.ok
                                          THEN lastCall.arg ELSE NoName]
    /\ UNCHANGED <<dbVars, webVars, probe, search_path, spc, ctxStack>>

\* with TenantSchemaContext(schema_name): __init__ and __enter__.  When
\* set_search_path raises, __enter__ raises, and the with statement runs
\* neither the block nor __exit__.
CtxEnter(schema_name, okGet, okSet) ==
    /\ spc = "run"
    /\ Len(ctxStack) < MaxDepth
    /\ LET original_schema == GetCurrentSchema(ScriptConn, okGet)
           \* self.schema_name is not read again once __enter__ has returned
           self == [ original_schema |-> original_schema,
                     before |-> ActiveNamespace(search_path[ScriptConn]), readOk |-> okGet ]
       IN  /\ search_path' = PathAfterSet(ScriptConn, schema_name, okSet)
           /\ ctxStack' = IF okSet THEN Append(ctxStack, self) ELSE ctxStack
           /\ lastCall' = [NoCall EXCEPT !.op = "enter", !.ok = okSet,
                                         !.before = self.before, !.depth = Len(ctxStack)]
    /\ UNCHANGED <<dbVars, webVars, probe, spc>>

\* what the caller of the with statement sees: __exit__ returns False, so the
\* block's outcome, unless set_search_path raised inside __exit__
ExitObserved(block, ok) == IF ok THEN block ELSE "SET failed"

\* the block of the innermost context ends, by returning or by raising, and
\* __exit__ runs
CtxExit(block, ok) ==
    /\ spc = "run"
    /\ ctxStack # <<>>
    /\ LET self == ctxStack[Len(ctxStack)]
       IN  /\ search_path' = PathAfterSet(ScriptConn, self.original_schema, ok)
           /\ lastCall' = [NoCall EXCEPT !.op = "exit", !.ok = ok,
                                         !.before = self.before, !.block = block,
                                         !.observed = ExitObserved(block, ok),
                                         !.readOk = self.readOk,
                                         !.depth = Len(ctxStack) - 1]
    /\ ctxStack' = SubSeq(ctxStack, 1, Len(ctxStack) - 1)
    /\ UNCHANGED <<dbVars, webVars, probe, spc>>

----------------------------------------------------------------------------
(* A management script: the catalog operations of SchemaManager, called     *)
(* one after the other on the script's connection (autocommit).             *)

DQUOTE == "\""
\* the rest of a name that closes the quoted identifier, ends the statement,
\* adds a statement of its own and comments out what follows
INJECTED == "; DROP SCHEMA tenant_acme CASCADE; --"
INJECTED_TARGET == <<SCHEMA_PREFIX, "acme">>

CatalogNames ==
    { <<"acme">>, <<"techstart">>, <<SCHEMA_PREFIX, "acme">>, <<"a", DQUOTE, "b">>,
      <<"x", DQUOTE, INJECTED>> }

\* utils.py line 86: full_schema_name, without a special case for public
PrefixedName(schema_name) == <<SCHEMA_PREFIX>> \o schema_name

\* f'"{full_schema_name}"': the name is put between double quotes as it is
QuotedIdentifier(full_schema_name) == <<DQUOTE>> \o full_schema_name \o <<DQUOTE>>

\* PostgreSQL keeps the first 63 characters of an identifier
MaxIdentifierLength == 63

\* len(s) of a string, the sum of the lengths of its tokens
RECURSIVE CharLen(_)
CharLen(s) == IF s = <<>> THEN 0 ELSE Len(Head(s)) + CharLen(Tail(s))

\* the first n characters of a string
RECURSIVE FirstChars(_, _)
FirstChars(s, n) ==
    IF s = <<>> \/ n = 0 THEN <<>>
    ELSE IF Len(Head(s)) <= n THEN <<Head(s)>> \o FirstChars(Tail(s), n - Len(Head(s)))
    ELSE << SubSeq(Head(s), 1, n) >>

\* a longer identifier is cut, with a notice and without an error
TruncateIdentifier(s) == FirstChars(s, MaxIdentifierLength)

\* PostgreSQL reads a quoted identifier: it ends at the next double quote
ReadQuotedIdentifier(text) ==
    LET close == CHOOSE i \in 2..Len(text) :
                     text[i] = DQUOTE /\ \A j \in 2..(i - 1) : text[j] # DQUOTE
    IN  [ ident |-> TruncateIdentifier(SubSeq(text, 2, close - 1)),
          rest |-> SubSeq(text, close + 1, Len(text)) ]

\* how PostgreSQL parses the query string built around the quoted name
ParseOutcome(full_schema_name) ==
    LET read == ReadQuotedIdentifier(QuotedIdentifier(full_schema_name))
    IN  IF read.rest = <<>> THEN "one statement"
        ELSE IF Head(read.rest) = INJECTED THEN "two statements"
        ELSE "syntax error"

\* the identifier the first statement of the query string is about
ParsedIdentifier(full_schema_name) ==
    ReadQuotedIdentifier(QuotedIdentifier(full_schema_name)).ident

DropRefusedNever(name, cascade) == FALSE
\* DROP SCHEMA of one schema: RESTRICT refuses a schema that holds tables
DropRefused(name, cascade) == name \in schemata /\ name \in tabled /\ ~cascade

\* the catalog after the injected statement, if there is one
AfterInjected(full_schema_name, names) ==
    IF ParseOutcome(full_schema_name) = "two statements" THEN names \ {INJECTED_TARGET}
    ELSE names

\* SELECT schema_name FROM information_schema.schemata WHERE schema_name = %s:
\* the name is passed as a parameter and read as a value of the column's type,
\* an identifier
ExistsInCatalog(full_schema_name) == TruncateIdentifier(full_schema_name) \in schemata

ExistsInCatalogNever(full_schema_name) == FALSE
\* create_tenant_schema lines 97-99: if exists
CreateFindsSchema(full_schema_name) == ExistsInCatalog(full_schema_name)

\* create_tenant_schema reaches its CREATE SCHEMA statement and the statement
\* takes effect.  ok = FALSE: the connection fails.
CreateRuns(schema_name, ok) ==
    /\ ok
    /\ ~CreateFindsSchema(PrefixedName(schema_name))
    /\ ParseOutcome(PrefixedName(schema_name)) # "syntax error"

\* the schema names, or the names of the schemas with tables, after the call
AfterCreate(schema_name, ok, names, made) ==
    IF CreateRuns(schema_name, ok)
    THEN AfterInjected(PrefixedName(schema_name), names) \cup made
    ELSE names

\* SchemaManager.create_tenant_schema(schema_name), create_tables=False.
\* Every exception is caught, logged and answered with False.
\* _create_tenant_tables only logs.
CreateTenantSchema(schema_name, ok) ==
    /\ spc = "run"
    /\ LET runs == CreateRuns(schema_name, ok)
       IN  /\ schemata' = AfterCreate(schema_name, ok, schemata,
                                      {ParsedIdentifier(PrefixedName(schema_name))})
           /\ tabled' = AfterCreate(schema_name, ok, tabled, {})
           /\ lastCall' = [NoCall EXCEPT !.op = "create", !.arg = schema_name, !.ok = ok,
                                         !.returned = runs, !.raised = FALSE, !.ddl = runs,
                                         !.changed = (schemata' # schemata \/ tabled' # tabled),
                                         !.again = (/\ lastCall.op = "create"
                                                    /\ lastCall.arg = schema_name
                                                    /\ lastCall.returned)]
    /\ UNCHANGED <<tenants, memberships, inserts, inflight, search_path, webVars, probe, spc, ctxStack>>

\* drop_tenant_schema's statement takes effect.  It fails when the connection
\* fails, when it does not parse, and when RESTRICT meets a schema with
\* tables.  With an injected statement the clause falls into the comment, and
\* the first statement is a DROP without a clause, i.e. RESTRICT.
DropRuns(schema_name, cascade, ok) ==
    LET outcome == ParseOutcome(PrefixedName(schema_name))
    IN  /\ ok
        /\ outcome # "syntax error"
        /\ ~DropRefused(ParsedIdentifier(PrefixedName(schema_name)),
                        cascade /\ outcome = "one statement")

\* the schema names, or the names of the schemas with tables, after the call
AfterDrop(schema_name, cascade, ok, names) ==
    IF DropRuns(schema_name, cascade, ok)
    THEN AfterInjected(PrefixedName(schema_name),
                       names \ {ParsedIdentifier(PrefixedName(schema_name))})
    ELSE names

\* SchemaManager.drop_tenant_schema(schema_name, cascade).  Every failure is
\* logged and answered with False.
DropTenantSchema(schema_name, cascade, ok) ==
    /\ spc = "run"
    /\ schemata' = AfterDrop(schema_name, cascade, ok, schemata)
    /\ tabled' = AfterDrop(schema_name, cascade, ok, tabled)
    /\ lastCall' = [NoCall EXCEPT !.op = "drop", !.arg = schema_name, !.ok = ok,
                                  !.returned = DropRuns(schema_name, cascade, ok),
                                  !.raised = FALSE,
                                  !.ddl = DropRuns(schema_name, cascade, ok),
                                  !.changed = (schemata' # schemata \/ tabled' # tabled),
                                  !.cascade = cascade,
                                  !.nonempty = (PrefixedName(schema_name) \in tabled)]
    /\ UNCHANGED <<tenants, memberships, inserts, inflight, search_path, webVars, probe, spc, ctxStack>>

\* SchemaManager.schema_exists(schema_name): a failed query is logged and
\* answered with False
SchemaExists(schema_name, ok) ==
    /\ spc = "run"
    /\ lastCall' = [NoCall EXCEPT !.op = "exists", !.arg = schema_name, !.ok = ok,
                                  !.returned = (ok /\ ExistsInCatalog(PrefixedName(schema_name))),
                                  !.raised = FALSE]
    /\ UNCHANGED <<dbVars, webVars, probe, search_path, spc, ctxStack>>

\* every schema name the catalog can hold that LIKE 'tenant_%' selects, in the
\* order of ORDER BY schema_name
TenantSchemataInOrder ==
    << <<SCHEMA_PREFIX, "acme">>, <<SCHEMA_PREFIX, "techstart">>,
       <<SCHEMA_PREFIX, SCHEMA_PREFIX, "acme">>, <<SCHEMA_PREFIX, "x">> >>

\* [row[0].replace(SCHEMA_PREFIX, '') for row in cursor.fetchall()]
RECURSIVE WithoutPrefix(_)
WithoutPrefix(rows) ==
    IF rows = <<>> THEN <<>>
    ELSE <<RemovePrefixTokens(Head(rows))>> \o WithoutPrefix(Tail(rows))

\* SchemaManager.list_tenant_schemas(): a failed query is logged and answered
\* with an empty list
ListTenantSchemas(ok) ==
    /\ spc = "run"
    /\ LET rows == SelectSeq(TenantSchemataInOrder, LAMBDA name : name \in schemata)
       IN  lastCall' = [NoCall EXCEPT !.op = "list", !.ok = ok,
                                      !.listed = IF ok THEN WithoutPrefix(rows) ELSE <<>>,
                                      !.raised = FALSE]
    /\ UNCHANGED <<dbVars, webVars, probe, search_path, spc, ctxStack>>

----------------------------------------------------------------------------
(* TenantMembership.objects.create(user=..., tenant=...) from two database  *)
(* sessions.  create() saves the new object with one INSERT; the unique     *)
(* index that unique_together puts on (user_id, tenant_id) makes            *)
(* PostgreSQL decide each INSERT against the rows that are there when it    *)
(* completes, so the second of two INSERTs of a pair waits for the first    *)
(* and fails.                                                               *)

MaxJoinedAt == 9      \* the time of the last creation; the rows of the tests end at 5

Sessions == {"s1", "s2"}
MemberUsers == {"u1", "u3"}
MemberTenants == {"uuid-1", "uuid-2"}

NoInsert == [ row |-> NoMembership, outcome |-> "-" ]

\* DateTimeField(auto_now_add=True): later objects get later times
NextJoinedAt ==
    LET times == { m.joined_at : m \in memberships } \cup
                 { inserts[session].row.joined_at : session \in Sessions }
    IN  1 + CHOOSE t \in times : \A o \in times : o <= t

\* the session builds the object with the defaults of the model and sends the INSERT
BeginCreateMembership(session, user, tenant_id) ==
    /\ spc = "members"
    /\ inserts[session].outcome # "pending"
    /\ NextJoinedAt <= MaxJoinedAt
    /\ inserts' = [inserts EXCEPT ![session] =
          [ row |-> [user |-> user, tenant |-> tenant_id, is_active |-> TRUE,
                     joined_at |-> NextJoinedAt],
            outcome |-> "pending" ]]
    /\ UNCHANGED <<tenants, memberships, schemata, tabled, inflight, search_path, webVars, scriptVars, probe>>

UniqueTogetherNotEnforced(row) == FALSE
\* Meta.unique_together = [['user', 'tenant']]: the row would be the second of its pair
UniqueTogetherViolated(row) ==
    \E m \in memberships : m.user = row.user /\ m.tenant = row.tenant

\* the INSERT completes: the row is stored, or the statement fails with a
\* uniqueness violation, which create() passes on as IntegrityError
CompleteCreateMembership(session) ==
    /\ spc = "members"
    /\ inserts[session].outcome = "pending"
    /\ LET row == inserts[session].row
       IN  IF UniqueTogetherViolated(row)
           THEN /\ inserts' = [inserts EXCEPT ![session].outcome = "IntegrityError"]
                /\ UNCHANGED memberships
           ELSE /\ inserts' = [inserts EXCEPT ![session].outcome = "created"]
                /\ memberships' = memberships \cup {row}
    /\ UNCHANGED <<tenants, schemata, tabled, inflight, search_path, webVars, scriptVars, probe>>

----------------------------------------------------------------------------
(* Provisioning and deregistration, as the scripts do them: a Tenant row is *)
(* created and create_tenant_schema is called for it; drop_tenant_schema is *)
(* called for a Tenant and the row is deleted.                              *)

\* Tenant.schema_name: CharField(max_length=63), a varchar(63) column
SchemaNameMaxLength == 63

LONG56 == "xxxxxxxxxxxxxxxxxxxxxxxxxxxxxxxxxxxxxxxxxxxxxxxxxxxxxxxx"

\* the schema_name values handed to Tenant.objects.create
ProvisionNames == { <<"testco">>, <<"big-co">>, <<LONG56, "a">>, <<LONG56, "b">> }

\* values of uuid.uuid4 for the rows created
ProvisionIds == { "uuid-6", "uuid-7" }

UnusedIds == { id \in ProvisionIds : \A t \in tenants : t.id # id }

\* the INSERT of Tenant.objects.create fails: the value is too long for the
\* column, or another row has it (unique=True).  The model has no validator
\* for schema_name and create() does not run validators.
TenantInsertFails(schema_name) ==
    \/ CharLen(schema_name) > SchemaNameMaxLength
    \/ \E t \in tenants : t.schema_name = schema_name

\* tenant = Tenant.objects.create(schema_name=...); create_tenant_schema(tenant).
\* A failing INSERT raises and ends the script before create_tenant_schema.
ProvisionTenant(schema_name, ok) ==
    /\ spc = "provision"
    /\ UnusedIds # {}
    /\ IF TenantInsertFails(schema_name)
       THEN /\ lastCall' = [NoCall EXCEPT !.op = "provision", !.arg = schema_name, !.ok = ok,
                                          !.raised = TRUE]
            /\ UNCHANGED <<tenants, schemata, tabled>>
       ELSE /\ tenants' = tenants \cup
                   { [ id |-> CHOOSE id \in UnusedIds : TRUE, schema_name |-> schema_name,
                       domain |-> NullDomain, is_active |-> TRUE ] }
            /\ schemata' = AfterCreate(schema_name, ok, schemata,
                                       {ParsedIdentifier(PrefixedName(schema_name))})
            /\ tabled' = AfterCreate(schema_name, ok, tabled, {})
            /\ lastCall' = [NoCall EXCEPT !.op = "provision", !.arg = schema_name, !.ok = ok,
                                          !.returned = CreateRuns(schema_name, ok)]
    /\ UNCHANGED <<memberships, inserts, inflight, search_path, webVars, probe, spc, ctxStack>>

\* tenant.delete(): the row goes, and its memberships with it (on_delete=CASCADE)
MembershipsWithout(tenant) == { m \in memberships : m.tenant # tenant.id }

\* the scripts do not look at what drop_tenant_schema returns
DeleteAfterDropCall(tenant, dropped) == tenants \ {tenant}

\* cleanup_test_data.py: SchemaManager.drop_tenant_schema(tenant.schema_name);
\* tenant.delete()
DeregisterTenant(tenant, ok) ==
    /\ spc = "provision"
    /\ tenant \in tenants
    /\ schemata' = AfterDrop(tenant.schema_name, TRUE, ok, schemata)
    /\ tabled' = AfterDrop(tenant.schema_name, TRUE, ok, tabled)
    /\ tenants' = DeleteAfterDropCall(tenant, DropRuns(tenant.schema_name, TRUE, ok))
    /\ memberships' = IF tenant \in tenants' THEN memberships ELSE MembershipsWithout(tenant)
    /\ lastCall' = [NoCall EXCEPT !.op = "deregister", !.arg = tenant.schema_name, !.ok = ok,
                                  !.returned = DropRuns(tenant.schema_name, TRUE, ok),
                                  !.cascade = TRUE]
    /\ UNCHANGED <<inserts, inflight, search_path, webVars, probe, spc, ctxStack>>

\* test_api_endpoints.py cleanup(tenant): drop_tenant_schema only if
\* schema_exists answers True, then tenant.delete()
CleanupTenant(tenant, okExists, okDrop) ==
    /\ spc = "provision"
    /\ tenant \in tenants
    /\ LET exists == okExists /\ ExistsInCatalog(PrefixedName(tenant.schema_name))
           ok == exists /\ okDrop
       IN  /\ schemata' = AfterDrop(tenant.schema_name, TRUE, ok, schemata)
           /\ tabled' = AfterDrop(tenant.schema_name, TRUE, ok, tabled)
           /\ lastCall' = [NoCall EXCEPT !.op = "cleanup", !.arg = tenant.schema_name,
                                         !.ok = (okExists /\ okDrop),
                                         !.returned = DropRuns(tenant.schema_name, TRUE, ok),
                                         !.cascade = TRUE]
    /\ tenants' = tenants \ {tenant}
    /\ memberships' = MembershipsWithout(tenant)
    /\ UNCHANGED <<inserts, inflight, search_path, webVars, probe, spc, ctxStack>>

----------------------------------------------------------------------------
(* create_tenant_schema called from two database sessions at a time.  The   *)
(* existence query and the CREATE SCHEMA statement of a call are two        *)
(* statements in autocommit, and statements of the other session can run    *)
(* between them.                                                            *)

NoFlight ==
    [ op |-> "none", phase |-> "idle", name |-> NoName, returned |-> FALSE, made |-> FALSE ]

RaceNames == { <<"acme">>, <<"techstart">>, <<"newco">> }

\* lines 88-99: the existence query; a found schema, and a failed connection,
\* end the call with False
CreateCheckStep(session, schema_name, ok) ==
    /\ spc = "race"
    /\ inflight[session].phase # "checked"
    /\ inflight' = [inflight EXCEPT ![session] =
          [ op |-> "create", name |-> schema_name, returned |-> FALSE, made |-> FALSE,
            phase |-> IF ok /\ ~CreateFindsSchema(PrefixedName(schema_name))
                      THEN "checked" ELSE "returned" ]]
    /\ UNCHANGED <<tenants, memberships, schemata, tabled, inserts, search_path, webVars,
                   scriptVars, probe>>

\* CREATE SCHEMA IF NOT EXISTS on a schema that is there is skipped with a
\* notice: the statement does not fail
CreateIfNotExistsFails(full_schema_name) == FALSE

\* lines 101-109: CREATE SCHEMA IF NOT EXISTS, and return True
CreateExecuteStep(session) ==
    /\ spc = "race"
    /\ inflight[session].phase = "checked"
    /\ LET full_schema_name == PrefixedName(inflight[session].name)
           fails == CreateIfNotExistsFails(full_schema_name)
       IN  /\ schemata' = IF fails THEN schemata
                          ELSE schemata \cup {ParsedIdentifier(full_schema_name)}
           /\ inflight' = [inflight EXCEPT ![session].phase = "returned",
                                           ![session].returned = ~fails]
    /\ UNCHANGED <<tenants, memberships, tabled, inserts, search_path, webVars, scriptVars, probe>>

----------------------------------------------------------------------------
(* Self-service signup (automated_tenant/app).  The tenant model of this    *)
(* project is Client, a django_tenants TenantMixin: schema_name is unique,  *)
(* the schema of a Client is named schema_name itself, and save() of a new  *)
(* row inserts the row and then, as auto_create_schema is set, creates the  *)
(* schema.  The view runs in autocommit and catches nothing.  Client rows   *)
(* are kept in the variable tenants and the primary Domain of a Client in   *)
(* the field domain of its row.  A signup is a POST of the form; its steps  *)
(* are statements of one database session, and statements of the other     *)
(* session can run between them.                                            *)

\* the Client rows there are when the signups start
ClientRows ==
    { [id |-> "id-1", schema_name |-> <<"acme">>, domain |-> <<"acme", "localhost">>,
       is_active |-> TRUE] }

\* public, and the schema of every Client
ClientSchemata == { PUBLIC_SCHEMA, <<"acme">> }

\* values of the id sequence for the rows inserted
ClientIds == { "id-2", "id-3" }

UnusedClientIds == { id \in ClientIds : \A t \in tenants : t.id # id }

\* values of the form field schema_name
SignupNames == { <<"bigco">>, <<"BigCo">>, <<"big-co">>, <<"big_co">>, <<"acme">> }

\* str.lower()
LowerToken(token) == IF token = "BigCo" THEN "bigco" ELSE token
Lower(str) == [ i \in 1..Len(str) |-> LowerToken(str[i]) ]

\* the characters of a string, one by one
RECURSIVE Chars(_)
Chars(str) ==
    IF str = <<>> THEN <<>>
    ELSE [ j \in 1..Len(Head(str)) |-> SubSeq(Head(str), j, j) ] \o Chars(Tail(str))

LowerAlnum ==
    { "a", "b", "c", "d", "e", "f", "g", "h", "i", "j", "k", "l", "m", "n", "o", "p", "q",
      "r", "s", "t", "u", "v", "w", "x", "y", "z", "0", "1", "2", "3", "4", "5", "6", "7",
      "8", "9" }

\* re.match(r'^[a-z0-9]+(?:-[a-z0-9]+)*$', schema_name): runs of lowercase
\* letters and digits, joined by single hyphens
MatchesSubdomainPattern(schema_name) ==
    LET c == Chars(schema_name)
    IN  /\ Len(c) > 0
        /\ \A i \in 1..Len(c) : c[i] \in LowerAlnum \cup {"-"}
        /\ c[1] # "-" /\ c[Len(c)] # "-"
        /\ \A i \in 1..(Len(c) - 1) : ~(c[i] = "-" /\ c[i + 1] = "-")

\* Client.objects.filter(schema_name=schema_name).exists()
SubdomainTaken(schema_name) == \E t \in tenants : t.schema_name = schema_name

\* form.is_valid(): clean_schema_name lowers the value, and raises
\* ValidationError when it does not match the pattern or is taken; the view
\* then renders the form with its errors
SubmitSignup(session, value) ==
    /\ spc = "signup"
    /\ inflight[session].phase \in {"idle", "invalid", "IntegrityError", "done"}
    /\ LET schema_name == Lower(value)
       IN  inflight' = [inflight EXCEPT ![session] =
              [ op |-> "signup", name |-> schema_name, returned |-> FALSE, made |-> FALSE,
                phase |-> IF MatchesSubdomainPattern(schema_name) /\ ~SubdomainTaken(schema_name)
                          THEN "valid" ELSE "invalid" ]]
    /\ UNCHANGED <<tenants, memberships, schemata, tabled, inserts, search_path, webVars,
                   scriptVars, probe>>

UniqueSchemaNameNotEnforced(schema_name) == FALSE
\* the unique index on schema_name: the INSERT would be the second row of its
\* schema_name
UniqueSchemaNameViolated(schema_name) == \E t \in tenants : t.schema_name = schema_name

\* tenant.save(), first half: the INSERT.  A uniqueness violation raises
\* IntegrityError, which ends save() and the view.
InsertClient(session) ==
    /\ spc = "signup"
    /\ inflight[session].phase = "valid"
    /\ UnusedClientIds # {}
    /\ IF UniqueSchemaNameViolated(inflight[session].name)
       THEN /\ inflight' = [inflight EXCEPT ![session].phase = "IntegrityError"]
            /\ UNCHANGED tenants
       ELSE /\ inflight' = [inflight EXCEPT ![session].phase = "inserted"]
            /\ tenants' = tenants \cup
                   { [ id |-> CHOOSE id \in UnusedClientIds : TRUE,
                       schema_name |-> inflight[session].name,
                       domain |-> NullDomain, is_active |-> TRUE ] }
    /\ UNCHANGED <<memberships, schemata, tabled, inserts, search_path, webVars, scriptVars,
                   probe>>

\* tenant.save(), second half: auto_create_schema creates the schema
CreateClientSchema(session) ==
    /\ spc = "signup"
    /\ inflight[session].phase = "inserted"
    /\ schemata' = schemata \cup {inflight[session].name}
    /\ inflight' = [inflight EXCEPT ![session].phase = "saved", ![session].made = TRUE]
    /\ UNCHANGED <<tenants, memberships, tabled, inserts, search_path, webVars, scriptVars,
                   probe>>

\* domain.save() for f"{tenant.schema_name}.localhost", and the redirect
SaveDomain(session) ==
    /\ spc = "signup"
    /\ inflight[session].phase = "saved"
    /\ tenants' = { IF t.schema_name = inflight[session].name /\ t.domain = NullDomain
                    THEN [t EXCEPT !.domain = inflight[session].name \o <<"localhost">>]
                    ELSE t : t \in tenants }
    /\ inflight' = [inflight EXCEPT ![session].phase = "done", ![session].returned = TRUE]
    /\ UNCHANGED <<memberships, schemata, tabled, inserts, search_path, webVars, scriptVars,
                   probe>>

----------------------------------------------------------------------------
(* Specification *)

InitDb ==
    /\ tenants = TenantRows
    /\ memberships = MembershipRows
    /\ schemata = SchemataRows
    /\ tabled = TabledRows
    /\ search_path = [conn \in Connections |-> DefaultSearchPath]

InitRest ==
    /\ inserts = [session \in Sessions |-> NoInsert]
    /\ inflight = [session \in Sessions |-> NoFlight]
    /\ request = [w \in Workers |-> IdleRequest]
    /\ response = [w \in Workers |-> NoResponse]
    /\ setCalls = [w \in Workers |-> <<>>]
    /\ queries = [w \in Workers |-> {}]
    /\ ctxStack = <<>>
    /\ lastCall = NoCall
    /\ probe = NoProbe

\* the process is the server: its workers wait for requests
InitServer == InitDb /\ InitRest /\ pc = [w \in Workers |-> "idle"] /\ spc = "down"

\* the process is a script
InitScript == InitDb /\ InitRest /\ pc = [w \in Workers |-> "down"] /\ spc = "run"

Init == InitServer \/ InitScript

NextServer ==
    \/ \E w \in Workers, req \in Requests, ok \in BOOLEAN : RoutingProcessRequest(w, req, ok)
    \/ \E w \in Workers : PermissionProcessRequest(w)
    \/ \E w \in Workers : ViewQuery(w)
    \/ \E w \in Workers, raised \in BOOLEAN : ViewReturn(w, raised)
    \/ \E w \in Workers, ok \in BOOLEAN : RoutingProcessResponse(w, ok)
    \/ \E w \in Workers, closed \in BOOLEAN : RequestFinished(w, closed)

NextScript ==
    \/ \E n \in ScriptNames, ok \in BOOLEAN : ScriptSetSearchPath(n, ok)
    \/ \E ok \in BOOLEAN : ScriptGetCurrentSchema(ok)
    \/ \E n \in ScriptNames, okGet \in BOOLEAN, okSet \in BOOLEAN : CtxEnter(n, okGet, okSet)
    \/ \E block \in {"returned", "raised"}, ok \in BOOLEAN : CtxExit(block, ok)

\* a management script starts on a catalog that holds the global schema and
\* the schema of acme, with the CRM tables migrated into it by hand
CatalogRows == { PUBLIC_SCHEMA, <<SCHEMA_PREFIX, "acme">> }

InitCatalog ==
    /\ tenants = TenantRows
    /\ memberships = MembershipRows
    /\ schemata = CatalogRows
    /\ tabled = CatalogRows
    /\ search_path = [conn \in Connections |-> DefaultSearchPath]
    /\ InitRest /\ pc = [w \in Workers |-> "down"] /\ spc = "run"

NextCatalog ==
    \/ \E n \in CatalogNames, ok \in BOOLEAN : CreateTenantSchema(n, ok)
    \/ \E n \in CatalogNames, cascade \in BOOLEAN, ok \in BOOLEAN : DropTenantSchema(n, cascade, ok)
    \/ \E n \in CatalogNames, ok \in BOOLEAN : SchemaExists(n, ok)
    \/ \E ok \in BOOLEAN : ListTenantSchemas(ok)
    \/ \E n \in ScriptNames, ok \in BOOLEAN : ScriptSetSearchPath(n, ok)
    \/ \E ok \in BOOLEAN : ScriptGetCurrentSchema(ok)

InitIdentify ==
    /\ tenants = ProbeTenantRows
    /\ memberships = MembershipRows
    /\ schemata = SchemataRows
    /\ tabled = TabledRows
    /\ search_path = [conn \in Connections |-> DefaultSearchPath]
    /\ InitRest /\ pc = [w \in Workers |-> "down"] /\ spc = "probe"

NextIdentify == \E req \in ProbeRequests : IdentifyTenantCall(req)

InitMembers ==
    /\ InitDb /\ InitRest /\ pc = [w \in Workers |-> "down"] /\ spc = "members"

NextMembers ==
    \/ \E session \in Sessions, user \in MemberUsers, tenant_id \in MemberTenants :
           BeginCreateMembership(session, user, tenant_id)
    \/ \E session \in Sessions : CompleteCreateMembership(session)

InitProvision ==
    /\ InitDb /\ InitRest /\ pc = [w \in Workers |-> "down"] /\ spc = "provision"

NextProvision ==
    \/ \E n \in ProvisionNames, ok \in BOOLEAN : ProvisionTenant(n, ok)
    \/ \E tenant \in tenants, ok \in BOOLEAN : DeregisterTenant(tenant, ok)
    \/ \E tenant \in tenants, okExists \in BOOLEAN, okDrop \in BOOLEAN :
           CleanupTenant(tenant, okExists, okDrop)

InitRace ==
    /\ tenants = TenantRows
    /\ memberships = MembershipRows
    /\ schemata = CatalogRows
    /\ tabled = CatalogRows
    /\ search_path = [conn \in Connections |-> DefaultSearchPath]
    /\ InitRest /\ pc = [w \in Workers |-> "down"] /\ spc = "race"

NextRace ==
    \/ \E session \in Sessions, n \in RaceNames, ok \in BOOLEAN : CreateCheckStep(session, n, ok)
    \/ \E session \in Sessions : CreateExecuteStep(session)

\* Rows that Tenant.objects.create accepts, schema_name having no validator:
\* a Tenant named public, and a Tenant for which create_tenant_schema has not
\* been called (or whose schema has been dropped)
EdgeTenantRows ==
    { [id |-> "uuid-1", schema_name |-> <<"acme">>,  domain |-> NullDomain, is_active |-> TRUE],
      [id |-> "uuid-8", schema_name |-> PUBLIC_SCHEMA, domain |-> NullDomain, is_active |-> TRUE],
      [id |-> "uuid-10", schema_name |-> <<"fresh">>, domain |-> NullDomain, is_active |-> TRUE] }

EdgeMembershipRows ==
    { [user |-> "u1", tenant |-> "uuid-1", is_active |-> TRUE, joined_at |-> 1],
      [user |-> "u1", tenant |-> "uuid-8", is_active |-> TRUE, joined_at |-> 2],
      [user |-> "u1", tenant |-> "uuid-10", is_active |-> TRUE, joined_at |-> 3] }

EdgeRequests ==
    [ path : { [segs |-> <<"api", "contacts">>, slash |-> TRUE],
               [segs |-> <<"health">>, slash |-> TRUE] },
      xTenantId : { NoHeader },
      xTenantSchema : { <<"acme">>, PUBLIC_SCHEMA, <<"fresh">> },
      host : { <<"localhost">> },
      user : { Anonymous, "u1" } ]

\* the server, with the rows above in table tenants
InitServerEdge ==
    /\ tenants = EdgeTenantRows
    /\ memberships = EdgeMembershipRows
    /\ schemata = CatalogRows
    /\ tabled = CatalogRows
    /\ search_path = [conn \in Connections |-> DefaultSearchPath]
    /\ InitRest /\ pc = [w \in Workers |-> "idle"] /\ spc = "down"

NextServerEdge ==
    \/ \E w \in Workers, req \in EdgeRequests, ok \in BOOLEAN : RoutingProcessRequest(w, req, ok)
    \/ \E w \in Workers : PermissionProcessRequest(w)
    \/ \E w \in Workers : ViewQuery(w)
    \/ \E w \in Workers, raised \in BOOLEAN : ViewReturn(w, raised)
    \/ \E w \in Workers, ok \in BOOLEAN : RoutingProcessResponse(w, ok)
    \/ \E w \in Workers, closed \in BOOLEAN : RequestFinished(w, closed)

InitSignup ==
    /\ tenants = ClientRows
    /\ memberships = {}
    /\ schemata = ClientSchemata
    /\ tabled = ClientSchemata
    /\ search_path = [conn \in Connections |-> DefaultSearchPath]
    /\ InitRest /\ pc = [w \in Workers |-> "down"] /\ spc = "signup"

NextSignup ==
    \/ \E session \in Sessions, value \in SignupNames : SubmitSignup(session, value)
    \/ \E session \in Sessions : InsertClient(session)
    \/ \E session \in Sessions : CreateClientSchema(session)
    \/ \E session \in Sessions : SaveDomain(session)

Next == NextServer \/ NextScript

\* the server, a script, and either of them
SpecServer == InitServer /\ [][NextServer]_vars
SpecScript == InitScript /\ [][NextScript]_vars
SpecCatalog == InitCatalog /\ [][NextCatalog]_vars
SpecIdentify == InitIdentify /\ [][NextIdentify]_vars
SpecMembers == InitMembers /\ [][NextMembers]_vars
SpecProvision == InitProvision /\ [][NextProvision]_vars
SpecRace == InitRace /\ [][NextRace]_vars
SpecSignup == InitSignup /\ [][NextSignup]_vars
SpecServerEdge == InitServerEdge /\ [][NextServerEdge]_vars
Spec == Init /\ [][Next]_vars

----------------------------------------------------------------------------
(* Properties *)

IsTenant(t) == t # NoTenant /\ t # UnsetTenant

Rejections == {"400", "401", "403"}

\* C1: a request that ends in a rejection (unresolved, inactive, unauthenticated,
\* forbidden) has not called set_search_path with a tenant namespace
C1_RejectionBeforeSwitch ==
    \A w \in Workers :
        response[w] \in Rejections =>
            \A i \in 1..Len(setCalls[w]) : setCalls[w][i].name = PUBLIC_SCHEMA

\* C2: a request that resolves to an inactive tenant is rejected, and no
\* set_search_path call has been made for it when the rejection is produced
C2_InactiveRejectedBeforeSwitch ==
    \A w \in Workers :
        (request[w].resolved # NoTenant /\ ~request[w].resolved.is_active) =>
            /\ response[w] = "403"
            /\ request[w].tenant = UnsetTenant
            /\ ~request[w].viewed
            /\ pc[w] \in {"routing_response", "done"}
            /\ pc[w] = "routing_response" => setCalls[w] = <<>>
            /\ \A i \in 1..Len(setCalls[w]) : setCalls[w][i].name = PUBLIC_SCHEMA

C2_Witness ==
    \E w \in Workers :
        /\ request[w].resolved # NoTenant /\ ~request[w].resolved.is_active
        /\ pc[w] = "routing_response"

\* C3: a request on a public path never runs tenant identification, has
\* request.tenant = None, and passes process_request only with the global
\* namespace active; when that SET fails the request is aborted
C3_ExemptRunsGlobal ==
    \A w \in Workers :
        request[w].public_path =>
            /\ ~request[w].identified
            /\ request[w].resolved = NoTenant
            /\ ~IsTenant(request[w].tenant)
            /\ pc[w] \in {"permission", "view", "routing_response"} =>
                   request[w].tenant = NoTenant
            /\ pc[w] \in {"permission", "view"} =>
                   search_path[w] = <<PUBLIC_SCHEMA, PUBLIC_SCHEMA>>
            /\ request[w].tenant = UnsetTenant => (response[w] = "500" /\ ~request[w].viewed)

C3_Witness ==
    \E w \in Workers :
        request[w].public_path /\ pc[w] = "view" /\ IsAuthenticated(request[w].user)

C6_RestoredWhenResponseLeaves ==
    \A w \in Workers :
        (pc[w] = "done" /\ IsTenant(request[w].tenant)) =>
            ActiveNamespace(search_path[w]) = PUBLIC_SCHEMA

\* C7: a connection that is between requests has the global namespace active
C7_GlobalBetweenRequests ==
    \A w \in Workers : pc[w] = "idle" => ActiveNamespace(search_path[w]) = PUBLIC_SCHEMA

\* C5: after a TenantSchemaContext block has ended, by returning or by raising,
\* the namespace that was active before the block is active again (stated for
\* the blocks whose read and SET statements all succeeded)
C5_ContextRestoresPrevious ==
    (lastCall.op = "exit" /\ lastCall.ok /\ lastCall.readOk) =>
        ActiveNamespace(search_path[ScriptConn]) = lastCall.before

\* C8: the caller of a TenantSchemaContext block observes the block's own
\* outcome, also when the restore fails
C8_RestoreFailureKeepsOutcome ==
    lastCall.op = "exit" => lastCall.observed = lastCall.block

\* C9: when set_search_path fails on entry the unit of work does not run: the
\* middleware answers 500 without running the handler and without setting
\* request.tenant, __enter__ leaves no context entered and nothing changed
C9_FailedSwitchRunsNothing ==
    /\ \A w \in Workers :
          (setCalls[w] # <<>> /\ setCalls[w][1].caller = "process_request"
                /\ ~setCalls[w][1].ok) =>
              /\ response[w] = "500"
              /\ ~request[w].viewed
              /\ request[w].tenant = UnsetTenant
              /\ request[w].tenant_membership = NoMembership
              /\ pc[w] \in {"routing_response", "done"}
    /\ (lastCall.op = "enter" /\ ~lastCall.ok) =>
          /\ Len(ctxStack) = lastCall.depth
          /\ ActiveNamespace(search_path[ScriptConn]) = lastCall.before

C9_Witness ==
    \E w \in Workers :
        /\ setCalls[w] # <<>> /\ setCalls[w][1].caller = "process_request"
        /\ ~setCalls[w][1].ok /\ setCalls[w][1].name # PUBLIC_SCHEMA
        /\ request[w].identified
        /\ pc[w] = "done"

\* C10: get_current_schema right after a successful set_search_path(n) returns n
\* (stated for the reads that succeeded)
C10_SetThenGetRoundTrip ==
    (lastCall.op = "get" /\ lastCall.ok /\ lastCall.arg # NoName) =>
        lastCall.result = lastCall.arg

\* a name that can stand between double quotes as it is
IsPlainName(schema_name) == \A i \in 1..Len(schema_name) : schema_name[i] # DQUOTE

\* C11: create_tenant_schema called a second time, right after a call for the
\* same name that returned True, returns False without raising and leaves the
\* catalog as it was; the schema of the first call is in the catalog, once
\* (the catalog is a set of names), under the name tenant_<name>.  The first of
\* two calls returns True when the schema is absent and the connection works.
\* For names without a double quote.
C11_SecondCreateIsNoOp ==
    (lastCall.op = "create" /\ IsPlainName(lastCall.arg)) =>
        /\ lastCall.again =>
              /\ ~lastCall.returned
              /\ ~lastCall.raised
              /\ ~lastCall.changed
              /\ PrefixedName(lastCall.arg) \in schemata
        /\ lastCall.returned => (lastCall.changed /\ PrefixedName(lastCall.arg) \in schemata)
        /\ (lastCall.ok /\ ~lastCall.returned) => ~lastCall.changed

C11_Witness ==
    /\ lastCall.op = "create" /\ lastCall.again /\ lastCall.ok
    /\ lastCall.arg = <<"techstart">>
    /\ <<SCHEMA_PREFIX, "techstart">> \in schemata

\* the tenants each identification method finds for the request of the probe,
\* read off the tables
FoundBy(method) ==
    LET req == probe.req
    IN  CASE method = 1 ->
               { t \in tenants : /\ req.xTenantId # NoHeader
                                 /\ \/ (IsUUID(req.xTenantId) /\ t.id = req.xTenantId[1])
                                    \/ t.schema_name = req.xTenantId }
          [] method = 2 ->
               { t \in tenants : req.xTenantSchema # NoHeader /\ t.schema_name = req.xTenantSchema }
          [] method = 3 -> { t \in tenants : t.domain = req.host }
          [] method = 4 -> { t \in tenants : Len(req.host) > 1 /\ t.schema_name = <<req.host[1]>> }
          [] method = 5 ->
               { t \in tenants : /\ req.user # Anonymous
                                 /\ \E m \in memberships :
                                        m.user = req.user /\ m.tenant = t.id /\ m.is_active }

\* C12: _identify_tenant returns a tenant found by the first of the five
\* methods, in their fixed order, that finds one, whether that tenant is
\* active or not, and no tenant when methods 1 to 4 find none and the caller
\* is anonymous or has no active membership; a tenant found by the host's
\* domain wins over a different tenant found by the host's leftmost label.
C12_FirstMatchWins ==
    probe.ran =>
        /\ \A method \in 1..4 :
              (FoundBy(method) # {} /\ \A earlier \in 1..(method - 1) : FoundBy(earlier) = {})
                  => probe.tenant \in FoundBy(method)
        /\ (\A method \in 1..4 : FoundBy(method) = {}) => probe.tenant \in FoundBy(5) \cup {NoTenant}
        /\ (\A method \in 1..5 : FoundBy(method) = {}) => probe.tenant = NoTenant

\* host newco.example.com is the domain of tenant uuid-5 and its leftmost label
\* is the schema_name of tenant uuid-4
C12_Witness ==
    /\ probe.ran
    /\ FoundBy(1) = {} /\ FoundBy(2) = {}
    /\ \E byDomain \in FoundBy(3), byLabel \in FoundBy(4) :
          byDomain # byLabel /\ probe.tenant = byDomain

\* C19: a present X-Tenant-ID value that is a well-formed id of a tenant
\* resolves to that tenant, also when another tenant has the value as its
\* schema_name; a value that is no tenant's id, or not a well-formed id,
\* resolves to the tenant with that schema_name; a value that is neither gives
\* what the same request gives without the header.
C19_IdBeforeName ==
    LET value == probe.req.xTenantId
        byId == { t \in tenants : IsUUID(value) /\ t.id = value[1] }
        byName == { t \in tenants : t.schema_name = value }
    IN  (probe.ran /\ value # NoHeader) =>
            /\ byId # {} => probe.tenant \in byId
            /\ (byId = {} /\ byName # {}) => probe.tenant \in byName
            /\ (byId = {} /\ byName = {}) =>
                  probe.tenant = IdentifyTenant([probe.req EXCEPT !.xTenantId = NoHeader])

\* the header carries the id of tenant uuid-1, which is the schema_name of
\* tenant uuid-5
C19_Witness ==
    /\ probe.ran
    /\ probe.req.xTenantId = <<"uuid-1">>
    /\ \E other \in tenants : other.schema_name = probe.req.xTenantId /\ other.id # "uuid-1"
    /\ probe.tenant.id = "uuid-1"

\* the caller's active memberships joined last, read off the table
LatestActiveMemberships(user) ==
    { m \in memberships :
        /\ m.user = user /\ m.is_active
        /\ \A o \in memberships : (o.user = user /\ o.is_active) => o.joined_at <= m.joined_at }

\* no header, domain or subdomain method finds a tenant for the probe's request
FallsThroughToMembership == probe.ran /\ \A method \in 1..4 : FoundBy(method) = {}

ActiveMembershipsOf(r) ==
    { m \in memberships : m.user = r.user /\ m.tenant = r.tenant.id /\ m.is_active }

\* the request of worker w has been through TenantPermissionMiddleware
PastPermission(w) == pc[w] \in {"view", "routing_response", "done"}

\* C13: a request switched to an active tenant, with an authenticated caller,
\* reaches the handler only with an active membership of the caller in that
\* tenant, which is then request.tenant_membership; without one (no
\* membership, or a deactivated one) the answer is 403, the handler does not
\* run and request.tenant_membership is not set.
C13_HandlerNeedsActiveMembership ==
    \A w \in Workers :
        LET r == request[w]
        IN  (PastPermission(w) /\ IsTenant(r.tenant) /\ r.tenant.is_active /\ r.user # Anonymous) =>
                IF ActiveMembershipsOf(r) = {}
                THEN response[w] = "403" /\ ~r.viewed /\ r.tenant_membership = NoMembership
                ELSE r.viewed /\ r.tenant_membership \in ActiveMembershipsOf(r)

\* a caller whose only membership in the tenant is deactivated
C13_Witness ==
    \E w \in Workers :
        LET r == request[w]
        IN  /\ PastPermission(w) /\ IsTenant(r.tenant) /\ r.tenant.is_active
            /\ \E m \in memberships : m.user = r.user /\ m.tenant = r.tenant.id /\ ~m.is_active
            /\ ActiveMembershipsOf(r) = {}
            /\ response[w] = "403" /\ ~r.viewed

\* the SET issued by process_request for the request of worker w failed
EntrySwitchFailed(w) ==
    \E i \in 1..Len(setCalls[w]) : setCalls[w][i].caller = "process_request" /\ ~setCalls[w][i].ok

\* C16: a request for which no method finds a tenant is answered 400, one
\* resolved to an inactive tenant 403, one of an anonymous caller switched to
\* a tenant 401, one of an authenticated caller without an active membership
\* in the tenant 403, one whose SET on entry failed 500; in each case the
\* handler does not run.
C16_RejectionOutcomes ==
    \A w \in Workers :
        LET r == request[w]
        IN  /\ (r.identified /\ r.resolved = NoTenant) => (response[w] = "400" /\ ~r.viewed)
            /\ (r.identified /\ IsTenant(r.resolved) /\ ~r.resolved.is_active) =>
                   (response[w] = "403" /\ ~r.viewed)
            /\ (PastPermission(w) /\ IsTenant(r.tenant) /\ r.user = Anonymous) =>
                   (response[w] = "401" /\ ~r.viewed)
            /\ (PastPermission(w) /\ IsTenant(r.tenant) /\ r.user # Anonymous
                    /\ ActiveMembershipsOf(r) = {}) =>
                   (response[w] = "403" /\ ~r.viewed)
            /\ EntrySwitchFailed(w) => (response[w] = "500" /\ ~r.viewed)

\* one worker has answered 401 to an anonymous caller, the other 500 after a
\* failed SET
C16_Witness ==
    \E w \in Workers, v \in Workers :
        /\ IsTenant(request[w].tenant) /\ request[w].user = Anonymous /\ response[w] = "401"
        /\ EntrySwitchFailed(v) /\ response[v] = "500"

\* C14: tenant_memberships holds at most one row per (user, tenant), and a
\* creation that ended with a uniqueness violation has stored no row of its own.
C14_OneMembershipPerPair ==
    /\ \A m \in memberships, o \in memberships :
          (m.user = o.user /\ m.tenant = o.tenant) => m = o
    /\ \A session \in Sessions :
          inserts[session].outcome = "IntegrityError" => inserts[session].row \notin memberships

\* two creations for the pair (u3, uuid-1) were in flight together; one has
\* stored its row, the other has failed
C14_Witness ==
    \E a \in Sessions, b \in Sessions :
        /\ inserts[a].outcome = "created" /\ inserts[b].outcome = "IntegrityError"
        /\ inserts[a].row.user = "u3" /\ inserts[b].row.user = "u3"
        /\ inserts[a].row.tenant = inserts[b].row.tenant
        /\ inserts[b].row.joined_at < inserts[a].row.joined_at

\* C15: a call of schema_exists, list_tenant_schemas, get_current_schema or
\* drop_tenant_schema whose statement fails tells its caller so: it raises, or
\* it returns what no successful call returns.  A successful drop returns
\* True; successful calls of the other three return False, the empty list and
\* public for some catalogs.
C15_CatalogFailureReported ==
    (lastCall.op \in {"exists", "list", "get", "drop"} /\ ~lastCall.ok) =>
        \/ lastCall.raised
        \/ lastCall.op = "drop" /\ ~lastCall.returned

\* C17: on the script's connection, once set_search_path has activated a
\* tenant schema that is in the catalog, the search_path is that schema and
\* then public, and an unqualified reference to a CRM table resolves to the
\* tenant schema.  The tenant schemas not made by create_tenant_schema hold
\* the tables from the start.
C17_CreatedSchemaTakesTenantWrites ==
    \A schema_name \in { <<"acme">>, <<"techstart">> } :
        (/\ lastCall.op = "set" /\ lastCall.ok /\ lastCall.arg = schema_name
         /\ PrefixedName(schema_name) \in schemata) =>
            /\ search_path[ScriptConn] = << PrefixedName(schema_name), PUBLIC_SCHEMA >>
            /\ ResolveIn(search_path[ScriptConn]) = PrefixedName(schema_name)

\* C18: create_tenant_schema with a name that holds a double quote raises,
\* executes no DDL and leaves the catalog as it was.
C18_BreakingNameFailsLoudly ==
    (lastCall.op = "create" /\ ~IsPlainName(lastCall.arg)) =>
        /\ lastCall.raised
        /\ ~lastCall.ddl
        /\ ~lastCall.changed

\* every name whose prefixed form the catalog of a management script can hold,
\* in ascending order
ListableNamesInOrder == << <<"acme">>, <<"techstart">>, <<SCHEMA_PREFIX, "acme">>, <<"x">> >>

\* C21: a list_tenant_schemas call whose query succeeds returns the names n
\* with tenant_<n> in the catalog at the time of the call, each once, in
\* ascending order.
C21_ListIsExactAndSorted ==
    (lastCall.op = "list" /\ lastCall.ok) =>
        lastCall.listed =
            SelectSeq(ListableNamesInOrder, LAMBDA n : ExistsInCatalog(PrefixedName(n)))

\* C22: drop_tenant_schema(n, cascade=True) on a working connection removes
\* tenant_<n> with its tables and returns True, and schema_exists(n) is then
\* False; drop_tenant_schema(n, cascade=False) for a schema that holds tables
\* returns False and changes nothing.  For names without a double quote.
C22_DropCascadeAndRestrict ==
    (lastCall.op = "drop" /\ IsPlainName(lastCall.arg)) =>
        /\ (lastCall.cascade /\ lastCall.ok) =>
              /\ lastCall.returned
              /\ ~ExistsInCatalog(PrefixedName(lastCall.arg))
              /\ PrefixedName(lastCall.arg) \notin tabled
        /\ (~lastCall.cascade /\ lastCall.nonempty) =>
              /\ ~lastCall.returned
              /\ ~lastCall.changed
              /\ ExistsInCatalog(PrefixedName(lastCall.arg))
              /\ PrefixedName(lastCall.arg) \in tabled

\* both cases on tenant_acme: the RESTRICT drop has been refused
C22_Witness ==
    /\ lastCall.op = "drop" /\ lastCall.arg = <<"acme">> /\ lastCall.ok
    /\ ~lastCall.cascade /\ lastCall.nonempty /\ ~lastCall.returned
    /\ <<SCHEMA_PREFIX, "acme">> \in schemata

\* C23: when a TenantSchemaContext block that was entered inside another one
\* ends, the namespace of the enclosing block, which was active when the inner
\* block was entered, is active again; the global namespace is active then
\* only if it was active when the inner block was entered (stated for the
\* blocks whose read and SET statements all succeeded)
C23_InnerExitRestoresOuter ==
    (lastCall.op = "exit" /\ lastCall.depth >= 1 /\ lastCall.ok /\ lastCall.readOk) =>
        /\ ActiveNamespace(search_path[ScriptConn]) = lastCall.before
        /\ ActiveNamespace(search_path[ScriptConn]) = PUBLIC_SCHEMA =>
              lastCall.before = PUBLIC_SCHEMA

\* the schema that create_tenant_schema makes, and drop_tenant_schema drops,
\* for a Tenant row
PhysicalNamespace(tenant) == TruncateIdentifier(PrefixedName(tenant.schema_name))

\* C24: every tenant schema in the catalog is the schema of a Tenant row
C24_NoOrphanNamespace ==
    \A name \in schemata :
        StartsWithPrefix(name) => \E tenant \in tenants : PhysicalNamespace(tenant) = name

SafeChars ==
    { "a", "b", "c", "d", "e", "f", "g", "h", "i", "j", "k", "l", "m", "n", "o", "p", "q",
      "r", "s", "t", "u", "v", "w", "x", "y", "z", "0", "1", "2", "3", "4", "5", "6", "7",
      "8", "9", "_" }

\* only lowercase letters, digits and underscores
IsSafeName(schema_name) ==
    \A i \in 1..Len(schema_name) :
        \A j \in 1..Len(schema_name[i]) : SubSeq(schema_name[i], j, j) \in SafeChars

\* C26: the schema_name of every Tenant row holds only lowercase letters,
\* digits and underscores, with the prefix it is at most 63 characters long,
\* and two rows with different schema_name have different schemas.
C26_AcceptedNamesAreSafe ==
    /\ \A tenant \in tenants :
          /\ IsSafeName(tenant.schema_name)
          /\ CharLen(PrefixedName(tenant.schema_name)) <= MaxIdentifierLength
    /\ \A tenant \in tenants, other \in tenants :
          tenant.schema_name # other.schema_name =>
              PhysicalNamespace(tenant) # PhysicalNamespace(other)

\* C27: of the create_tenant_schema calls of two sessions for one name, with
\* no drop of the schema between them, at most one returns True
C27_OneCreateReturnsTrue ==
    \A a \in Sessions, b \in Sessions :
        (a # b /\ inflight[a].op = "create" /\ inflight[b].op = "create"
             /\ inflight[a].name = inflight[b].name) =>
            ~(inflight[a].returned /\ inflight[b].returned)

\* the two signups chose one schema_name, passed validation and have ended
BothEndedFor(a, b) ==
    /\ a # b
    /\ inflight[a].op = "signup" /\ inflight[b].op = "signup"
    /\ inflight[a].name = inflight[b].name
    /\ inflight[a].phase \in {"done", "IntegrityError"}
    /\ inflight[b].phase \in {"done", "IntegrityError"}

RowsNamed(schema_name) == { t \in tenants : t.schema_name = schema_name }

C28_TenantHandlerNeverGlobalFirst ==
    \A w \in Workers :
        (pc[w] = "view" /\ IsTenant(request[w].tenant)) =>
            StartsWithPrefix(Head(search_path[ConnOf(w)]))

\* C29: a request resolved to a tenant reaches the handler only if the
\* tenant's schema is in the catalog
C29_HandlerOnlyOnExistingSchema ==
    \A w \in Workers :
        (request[w].viewed /\ IsTenant(request[w].tenant)) =>
            FullSchemaName(request[w].tenant.schema_name) \in schemata

\* process_request has switched the connection to the schema of the tenant
SwitchedOnEntryTo(w, tenant) ==
    \E i \in 1..Len(setCalls[w]) :
        setCalls[w][i] = SetCall(tenant.schema_name, TRUE, "process_request")

\* C30: request.tenant is a Tenant only after a set_search_path call of
\* process_request for that tenant's schema has succeeded for the same
\* request; on a public path it is not a Tenant, and after a failed SET on
\* entry it has not been assigned; and while the handler runs and
\* TenantAccessPermission grants, the search_path of the worker's connection
\* is the one set for request.tenant.
C30_TenantAttrMeansSwitched ==
    \A w \in Workers :
        LET r == request[w]
        IN  /\ IsTenant(r.tenant) => SwitchedOnEntryTo(w, r.tenant)
            /\ r.public_path => ~IsTenant(r.tenant)
            /\ (r.public_path /\ pc[w] \in {"permission", "view"}) => r.tenant = NoTenant
            /\ EntrySwitchFailed(w) => r.tenant = UnsetTenant
            /\ (pc[w] = "view" /\ TenantAccessPermission(r)) =>
                   search_path[ConnOf(w)] = SearchPathFor(r.tenant.schema_name)

\* a handler runs with the permission granted on one worker, while the other
\* worker's SET on entry has failed for a resolved tenant
C30_Witness ==
    \E w \in Workers, v \in Workers :
        /\ w # v
        /\ pc[w] = "view" /\ TenantAccessPermission(request[w])
        /\ search_path[ConnOf(w)] = SearchPathFor(request[w].tenant.schema_name)
        /\ EntrySwitchFailed(v) /\ IsTenant(request[v].resolved)
        /\ request[v].tenant = UnsetTenant

====
